---- MODULE Spec2Model ----
(***************************************************************************)
(* voltamanager: the main command, the version check and the update       *)
(* orchestration (check_and_update), with the snapshot, the history log    *)
(* and the version cache it reads and writes.                              *)
(*                                                                         *)
(* Strings are sequences of one-character strings, so that parsing and     *)
(* formatting of name@version tokens are computed, not assumed.            *)
(***************************************************************************)
EXTENDS Integers, Sequences, FiniteSets, TLC

(***************************************************************************)
(* Bounds of the model.                                                    *)
(***************************************************************************)
\* number of distinct packages volta may have installed
NumPkgs == 2

(***************************************************************************)
(* Strings.                                                                *)
(***************************************************************************)
Letters == <<"a", "b", "c", "d", "e", "f", "g", "h", "i", "j", "k", "l", "m", "n">>
EmptyStr == << >>
AT == <<"@">>
PROJECT == <<"p", "r", "o", "j", "e", "c", "t">>
LATEST == <<"l", "a", "t", "e", "s", "t">>
V1 == <<"1">>
V2 == <<"2">>
UNKNOWN_LATEST == <<"?">>
NO_LATEST == <<"-">>
None == <<"None">>

\* code point order of the characters the model uses (for sorted())
Ord(c) ==
  CASE c = "-" -> 45
    [] c = "/" -> 47
    [] c = "1" -> 49
    [] c = "2" -> 50
    [] c = "@" -> 64
    [] c = "a" -> 97
    [] c = "b" -> 98
    [] c = "c" -> 99
    [] c = "d" -> 100
    [] c = "e" -> 101
    [] c = "f" -> 102
    [] c = "g" -> 103
    [] c = "h" -> 104
    [] c = "j" -> 106
    [] c = "l" -> 108
    [] c = "o" -> 111
    [] c = "p" -> 112
    [] c = "r" -> 114
    [] c = "s" -> 115
    [] c = "t" -> 116
    [] OTHER -> 0

\* s < t for Python strings: lexicographic by code point
RECURSIVE StrLess(_, _)
StrLess(s, t) ==
  IF t = << >> THEN FALSE
  ELSE IF s = << >> THEN TRUE
  ELSE IF Ord(Head(s)) # Ord(Head(t)) THEN Ord(Head(s)) < Ord(Head(t))
  ELSE StrLess(Tail(s), Tail(t))

\* positions of character c in s
Positions(s, c) == {i \in 1..Len(s) : s[i] = c}
SetMin(S) == CHOOSE x \in S : \A y \in S : x <= y
SetMax(S) == CHOOSE x \in S : \A y \in S : x >= y

\* the elements of a sequence
Range(s) == {s[i] : i \in 1..Len(s)}

(***************************************************************************)
(* core.py: parse_package                                                  *)
(***************************************************************************)
\* s.split("@")[0] and [1]: the text before the first "@", and the text
\* between the first "@" and the next one (or the end)
SplitFirst(s) ==
  LET p == SetMin(Positions(s, "@"))
      rest == SubSeq(s, p + 1, Len(s))
      q == IF Positions(rest, "@") = {} THEN Len(rest) + 1
           ELSE SetMin(Positions(rest, "@"))
  IN <<SubSeq(s, 1, p - 1), SubSeq(rest, 1, q - 1)>>

\* split at the first "@" instead of the last one
RSplitLast_first(s) ==
  LET p == SetMin(Positions(s, "@"))
  IN <<SubSeq(s, 1, p - 1), SubSeq(s, p + 1, Len(s))>>

\* s.rsplit("@", 1): split at the last "@"
RSplitLast(s) ==
  LET p == SetMax(Positions(s, "@"))
  IN <<SubSeq(s, 1, p - 1), SubSeq(s, p + 1, Len(s))>>

parse_package(name_ver) ==
  IF Positions(name_ver, "@") = {} THEN <<name_ver, EmptyStr>>
  ELSE IF Head(name_ver) = "@"
       THEN IF Cardinality(Positions(name_ver, "@")) < 2
            THEN <<name_ver, EmptyStr>>
            ELSE RSplitLast(name_ver)
       ELSE SplitFirst(name_ver)

(***************************************************************************)
(* Python dicts with string keys, in insertion order: a sequence of        *)
(* [k, v] records with distinct keys.                                      *)
(***************************************************************************)
DictKeys(d) == {d[i].k : i \in 1..Len(d)}
DictGet(d, key) ==
  IF key \in DictKeys(d)
  THEN (d[CHOOSE i \in 1..Len(d) : d[i].k = key]).v
  ELSE None
\* d[key] = val: an existing key keeps its position
DictSet(d, key, val) ==
  IF key \in DictKeys(d)
  THEN [i \in 1..Len(d) |-> IF d[i].k = key THEN [k |-> key, v |-> val] ELSE d[i]]
  ELSE Append(d, [k |-> key, v |-> val])
\* the dict built by assigning the pairs of a list in order
RECURSIVE DictFromPairs(_, _)
DictFromPairs(d, pairs) ==
  IF pairs = << >> THEN d
  ELSE DictFromPairs(DictSet(d, Head(pairs)[1], Head(pairs)[2]), Tail(pairs))

\* Python truthiness of an optional string: None and "" are falsy
Truthy(x) == x # None /\ x # EmptyStr

\* [f(x) for x in s]
SeqMap(f(_), s) == [i \in 1..Len(s) |-> f(s[i])]

(***************************************************************************)
(* The inputs: package names, installed tokens, configuration.             *)
(***************************************************************************)
\* the i-th package name; every second one is scoped (@s/x)
PkgName(i) == IF i % 2 = 0 THEN <<"@", "s", "/", Letters[i]>> ELSE <<Letters[i]>>
PkgNames == {PkgName(i) : i \in 1..NumPkgs}

\* the versions volta reports for an installed package
InstalledVersions == {V1, PROJECT}
\* the versions the registry or the cache may name as latest
LatestVersions == {V1, V2}

\* the token volta lists for a package: name@version
Token(name, ver) == name \o AT \o ver

\* the lists of tokens get_installed_packages may return: any subset of the
\* packages, each once, in volta's listing order
RECURSIVE TokenLists(_)
TokenLists(i) ==
  IF i > NumPkgs THEN {<< >>}
  ELSE LET rest == TokenLists(i + 1)
       IN rest \cup {<<Token(PkgName(i), v)>> \o r : v \in InstalledVersions, r \in rest}

\* what volta has installed: a version, or "project", for some of the packages
VoltaStates == UNION {[S -> LatestVersions \cup InstalledVersions] : S \in SUBSET PkgNames}
\* get_installed_packages: the tokens volta lists, in its listing order
Listing(v) ==
  LET idx == SelectSeq([i \in 1..NumPkgs |-> i], LAMBDA i : PkgName(i) \in DOMAIN v)
  IN [k \in 1..Len(idx) |-> Token(PkgName(idx[k]), v[PkgName(idx[k])])]
\* volta install name@version: the version the package has afterwards; without
\* a version, or with "latest", the one the registry names as latest
SetVersion(v, name, ver) ==
  [n \in (DOMAIN v) \cup {name} |-> IF n = name THEN ver ELSE v[n]]
RECURSIVE InstallEffects(_, _)
InstallEffects(v, specs) ==
  IF specs = << >> THEN {v}
  ELSE LET p == parse_package(Head(specs))
           vers == IF p[2] \in {LATEST, EmptyStr} THEN LatestVersions ELSE {p[2]}
       IN UNION {InstallEffects(SetVersion(v, p[1], x), Tail(specs)) : x \in vers}
\* a failed volta install: the packages before the failing one are installed
FailedInstallEffects(v, specs) ==
  IF specs = << >> THEN {v}
  ELSE UNION {InstallEffects(v, SubSeq(specs, 1, k)) : k \in 0..(Len(specs) - 1)}
VoltaInstall(v, specs, rc) ==
  IF rc = 0 THEN InstallEffects(v, specs) ELSE FailedInstallEffects(v, specs)

\* config.py: the defaults of cache_ttl_hours and parallel_checks
DEFAULT_CACHE_TTL_HOURS == 1
DEFAULT_PARALLEL_CHECKS == 10

\* the configurations Config() may load: an exclusion list, include_project
Configs ==
  {[exclude |-> ex, include_project |-> ip,
    cache_ttl_hours |-> DEFAULT_CACHE_TTL_HOURS,
    parallel_checks |-> DEFAULT_PARALLEL_CHECKS] :
      ex \in {{}, {PkgName(1)}}, ip \in BOOLEAN}

should_exclude(cfg, package_name) == package_name \in cfg.exclude

(***************************************************************************)
(* cache.py: the version cache.  The cache file is a dict                  *)
(* name -> {"v": version, "ts": time}; a function on the cached names.     *)
(***************************************************************************)
SECONDS_PER_HOUR == 3600
\* time.time() during the run
Now == 2 * SECONDS_PER_HOUR

\* the exceptions a call may end with instead of a value
AttributeError == <<"AttributeError">>
UnicodeDecodeError == <<"UnicodeDecodeError">>
RemoteDisconnected == <<"RemoteDisconnected">>
Raises(x) == x \in {AttributeError, UnicodeDecodeError, RemoteDisconnected}

\* An entry of the stored object is any JSON value.  A record with the fields
\* v and ts is the entry cache_version writes; a JSON object may lack either
\* field (a field of the wrong type is read like a missing one, lines 70 and
\* 76); json names a value that is not an object: null, or a string.
JSON_NULL == [json |-> "null"]
JSON_STRING == [json |-> "string"]
IsJsonObject(entry) == "json" \notin DOMAIN entry

\* lines 63-76, on the dict _load_cache returned, at time t
get_cached_version(cache, package_name, ttl_hours, t) ==
  IF package_name \notin DOMAIN cache THEN None
  ELSE LET entry == cache[package_name]
           ttl_seconds == ttl_hours * SECONDS_PER_HOUR
       IN IF entry = JSON_NULL THEN None
          ELSE IF ~IsJsonObject(entry) THEN AttributeError
          ELSE LET timestamp == IF "ts" \in DOMAIN entry THEN entry.ts ELSE 0
               IN IF t - timestamp > ttl_seconds THEN None
                  ELSE IF "v" \in DOMAIN entry THEN entry.v ELSE None

\* a set that keeps nothing but the new entry
cache_version_alone(cache, package_name, version, t) ==
  [n \in {package_name} |-> [v |-> version, ts |-> t]]
\* lines 82: cache[package_name] = {"v": version, "ts": time.time()}
cache_version(cache, package_name, version, t) ==
  [n \in (DOMAIN cache) \cup {package_name} |->
     IF n = package_name THEN [v |-> version, ts |-> t] ELSE cache[n]]

\* the cache files a run may find: for every package no entry, or an entry
\* whose age is exactly the TTL, or one second more
CacheEntries ==
  {[v |-> v, ts |-> Now - DEFAULT_CACHE_TTL_HOURS * SECONDS_PER_HOUR] : v \in LatestVersions}
    \cup {[v |-> V2, ts |-> Now - DEFAULT_CACHE_TTL_HOURS * SECONDS_PER_HOUR - 1]}
CacheFiles == UNION {[S -> CacheEntries] : S \in SUBSET PkgNames}

\* What the cache file may hold: nothing (no file), a JSON object, JSON that
\* is not an object, text that is not JSON, bytes that are not UTF-8, or a
\* file that cannot be read (OSError).
CacheKinds == {"missing", "object", "not_object", "invalid_json", "non_utf8", "unreadable"}
\* the entries of a stored object that cache_version did not write
BadEntries ==
  {JSON_NULL, JSON_STRING, [v |-> V2], [ts |-> Now - DEFAULT_CACHE_TTL_HOURS * SECONDS_PER_HOUR]}
StoredObjects == UNION {[S -> CacheEntries \cup BadEntries] : S \in SUBSET PkgNames}
EmptyCache == << >>

\* _state = {"cache": None, "mtime": 0.0}; loaded is "cache is not None"
FreshState == [loaded |-> FALSE, cache |-> EmptyCache, mtime |-> 0]
LoadOutcome(raised, cache, st) == [raised |-> raised, cache |-> cache, state |-> st]

\* a load that returns the dict in memory whatever the file's mtime is
_load_cache_unconditional(kind, data, mtime, st) ==
  IF st.loaded THEN LoadOutcome(None, st.cache, st)
  ELSE LoadOutcome(None, data, [loaded |-> TRUE, cache |-> data, mtime |-> mtime])
\* _load_cache (lines 17-40) on the file (kind, data, mtime) with the module
\* state st: the dict it returns and the module state it leaves, or the
\* exception that read_text lets through
_load_cache(kind, data, mtime, st) ==
  LET empty == [loaded |-> TRUE, cache |-> EmptyCache, mtime |-> 0]
  IN IF kind = "missing" THEN LoadOutcome(None, EmptyCache, empty)
     ELSE IF st.loaded /\ mtime = st.mtime THEN LoadOutcome(None, st.cache, st)
     ELSE IF kind = "non_utf8" THEN LoadOutcome(UnicodeDecodeError, EmptyCache, st)
     ELSE IF kind \in {"invalid_json", "unreadable"} THEN LoadOutcome(None, EmptyCache, empty)
     ELSE IF kind = "not_object"
          THEN LoadOutcome(None, EmptyCache, [loaded |-> TRUE, cache |-> EmptyCache, mtime |-> mtime])
     ELSE LoadOutcome(None, data, [loaded |-> TRUE, cache |-> data, mtime |-> mtime])

(***************************************************************************)
(* npm.py as check_and_update calls it.                                    *)
(***************************************************************************)
\* get_latest_versions_parallel(packages, max_workers=10): the positional
\* arguments the function accepts
RESOLVER_MAX_POSITIONAL == 2
\* check_and_update passes (packages, safe_dir, config.parallel_checks)
RESOLVER_CALL_ARGS == 3

\* The outcomes of the call get_latest_versions_parallel(packages, ...) with
\* nargs positional arguments: Python raises TypeError when there are more
\* than the function accepts; otherwise the result maps every name whose
\* version is not "project" to a version or None.
get_latest_versions_parallel(packages, nargs) ==
  IF nargs > RESOLVER_MAX_POSITIONAL
  THEN {[raised |-> TRUE, value |-> << >>]}
  ELSE LET package_names == {packages[i][1] : i \in {j \in 1..Len(packages) : packages[j][2] # PROJECT}}
       IN {[raised |-> FALSE, value |-> m] : m \in [package_names -> LatestVersions \cup {None}]}

\* latest_versions.get(name)
MapGet(m, name) == IF name \in DOMAIN m THEN m[name] ELSE None

(***************************************************************************)
(* npm.py: get_latest_version, one attempt of the loop (lines 34-49).      *)
(***************************************************************************)
MAX_RETRIES == 2
\* RETRY_DELAYS = (0.5, 1.0) seconds, in milliseconds
RETRY_DELAYS == <<500, 1000>>

\* What one request can end with: a JSON object with a string version, a JSON
\* object without one, JSON that is not an object, text that is not JSON,
\* bytes that are not UTF-8, URLError, HTTPError, TimeoutError, or the
\* connection closed before or while the response is read (getresponse and
\* read raise http.client.RemoteDisconnected or ConnectionResetError, which
\* urlopen does not wrap in URLError).
AttemptOutcomes ==
  {"version", "no_version", "not_object", "invalid_json", "non_utf8",
   "url_error", "http_error", "timeout", "disconnected"}
\* lines 44 and 47: the exceptions the loop catches
Caught == {"url_error", "http_error", "invalid_json", "timeout"}
\* the exceptions it does not catch
Uncaught(outcome) ==
  IF outcome = "not_object" THEN AttributeError
  ELSE IF outcome = "non_utf8" THEN UnicodeDecodeError
  ELSE RemoteDisconnected

\* one pass of the loop body for the call l, the request ending with outcome
get_latest_version_attempt(l, outcome) ==
  LET tried == [l EXCEPT !.outcomes = Append(l.outcomes, outcome)]
  IN IF outcome = "version" THEN [tried EXCEPT !.active = FALSE, !.result = V2]
     ELSE IF outcome = "no_version" THEN [tried EXCEPT !.active = FALSE, !.result = None]
     ELSE IF outcome \notin Caught THEN [tried EXCEPT !.active = FALSE, !.result = Uncaught(outcome)]
     ELSE LET slept == IF l.attempt < MAX_RETRIES
                       THEN Append(l.sleeps, RETRY_DELAYS[l.attempt + 1])
                       ELSE l.sleeps
          IN [tried EXCEPT !.sleeps = slept,
                           !.attempt = l.attempt + 1,
                           !.active = l.attempt < MAX_RETRIES,
                           !.result = None]

(***************************************************************************)
(* npm.py: get_latest_versions_batch (lines 55-101).                       *)
(***************************************************************************)
\* What the bulk request can end with: a JSON object that has a version for
\* every name, for the first name only, for none, or whose entries are not
\* objects; JSON that is not an object; and the failures of a request.
BatchResponses ==
  {"versions", "first_only", "empty_object", "entries_not_objects", "not_object",
   "invalid_json", "non_utf8", "url_error", "http_error", "timeout", "disconnected"}
\* lines 94-99: the exceptions the function catches
BatchCaught == {"url_error", "http_error", "invalid_json", "timeout"}

BatchOutcome(response, raised, value) == [response |-> response, raised |-> raised, value |-> value]
get_latest_versions_batch(package_names, response) ==
  LET keys == {package_names[i] : i \in 1..Len(package_names)}
  IN IF package_names = << >> THEN BatchOutcome(response, None, << >>)
     ELSE IF response \in BatchCaught THEN BatchOutcome(response, None, << >>)
     ELSE IF response \in {"not_object", "non_utf8", "disconnected"}
          THEN BatchOutcome(response, Uncaught(response), << >>)
     ELSE BatchOutcome(response, None,
            [n \in keys |->
               IF response = "versions" \/ (response = "first_only" /\ n = package_names[1])
               THEN V2 ELSE None])

(***************************************************************************)
(* npm.py: get_latest_versions_parallel (lines 104-150), step by step.     *)
(***************************************************************************)
\* line 118: len(package_names) <= 10
BATCH_THRESHOLD == 10
\* a batch query whatever the number of names
TriesBatch_always(package_names) == TRUE
TriesBatch(package_names) == Len(package_names) <= BATCH_THRESHOLD

\* what future.result() gives: the return value of get_latest_version, or an
\* line 105: max_workers: int = 10
DEFAULT_MAX_WORKERS == 10
\* exception raised in the worker
WorkerException == <<"Exception">>
FutureOutcomes == {V2, None, WorkerException}
\* a collection that leaves out the names whose lookup raised
collect_futures_dropping(package_names, futures) ==
  [n \in {m \in DOMAIN futures : futures[m] # WorkerException} |-> futures[n]]
\* lines 142-147: latest_versions[package_name] = future.result(), None on Exception
collect_futures(package_names, futures) ==
  [n \in DOMAIN futures |-> IF futures[n] = WorkerException THEN None ELSE futures[n]]

(***************************************************************************)
(* operations.py: check_and_update, the version check (lines 107-210).     *)
(***************************************************************************)
Row(name, ver, lat, state) == [name |-> name, installed |-> ver, latest |-> lat, state |-> state]

\* the state of a checkable package whose latest version is known
Classify(ver, lat) == IF ver = lat THEN "up-to-date" ELSE "OUTDATED"

InstallSpec(name) == name \o AT \o LATEST

\* lines 119-138: the tokens that are not excluded, parsed
Kept(namevers, cfg) ==
  SelectSeq(SeqMap(parse_package, namevers), LAMBDA p : ~should_exclude(cfg, p[1]))
\* lines 123-126
ExcludedPackages(namevers, cfg, all_packages) ==
  IF all_packages
  THEN SelectSeq(SeqMap(parse_package, namevers), LAMBDA p : should_exclude(cfg, p[1]))
  ELSE << >>
\* project rows made before the exclusion list is consulted
ProjectRows_unfiltered(namevers, cfg) ==
  LET proj == SelectSeq(SeqMap(parse_package, namevers), LAMBDA p : p[2] = PROJECT)
      row(p) == Row(p[1], p[2], NO_LATEST, "PROJECT")
  IN SeqMap(row, proj)
\* lines 128-135
ProjectRows(namevers, cfg) ==
  LET proj == SelectSeq(Kept(namevers, cfg), LAMBDA p : p[2] = PROJECT)
      row(p) == Row(p[1], p[2], NO_LATEST, "PROJECT")
  IN SeqMap(row, proj)
\* lines 137-138
PackagesToCheck(namevers, cfg) ==
  SelectSeq(Kept(namevers, cfg), LAMBDA p : p[2] # PROJECT)
\* a snapshot that also records the project-pinned packages
Snapshot_of_kept(namevers, cfg) == DictFromPairs(<< >>, Kept(namevers, cfg))
Snapshot(namevers, cfg) == DictFromPairs(<< >>, PackagesToCheck(namevers, cfg))

\* lines 143-159: the rows of the packages the cache answers
CachedRows(packages_to_check, cache, cfg) ==
  LET cached(p) == get_cached_version(cache, p[1], cfg.cache_ttl_hours, Now)
      hits == SelectSeq(packages_to_check, LAMBDA p : Truthy(cached(p)))
      row(p) == Row(p[1], p[2], cached(p), Classify(p[2], cached(p)))
  IN SeqMap(row, hits)

\* lines 167-183 and 189-202: the rows of the packages the resolver answered
ResolvedRows(pkgs, latest_versions) ==
  LET row(p) ==
        LET lat == MapGet(latest_versions, p[1])
        IN IF lat = None THEN Row(p[1], p[2], UNKNOWN_LATEST, "UNKNOWN")
           ELSE Row(p[1], p[2], lat, Classify(p[2], lat))
  IN SeqMap(row, pkgs)

\* lines 168-170: every resolved version is cached
RECURSIVE CacheResolved(_, _, _)
CacheResolved(cache, pkgs, latest_versions) ==
  IF pkgs = << >> THEN cache
  ELSE LET lat == MapGet(latest_versions, Head(pkgs)[1])
           c == IF Truthy(lat) THEN cache_version(cache, Head(pkgs)[1], lat, Now) ELSE cache
       IN CacheResolved(c, Tail(pkgs), latest_versions)

\* lines 204-210
ExcludedRows(excluded_packages) ==
  LET row(p) == Row(p[1], p[2], NO_LATEST, "EXCLUDED")
  IN SeqMap(row, excluded_packages)

\* project packages planned whether included or not
ProjectPlan_always(namevers, cfg, include_project) ==
  LET proj == SelectSeq(Kept(namevers, cfg), LAMBDA p : p[2] = PROJECT)
      spec(p) == InstallSpec(p[1])
  IN SeqMap(spec, proj)
\* lines 133-134: project packages are planned when included
ProjectPlan(namevers, cfg, include_project) ==
  LET proj == SelectSeq(Kept(namevers, cfg), LAMBDA p : p[2] = PROJECT)
      spec(p) == InstallSpec(p[1])
  IN IF include_project THEN SeqMap(spec, proj) ELSE << >>
\* lines 155-159: a cache hit that differs from the installed version is planned
CachedPlan(packages_to_check, cache, cfg) ==
  LET cached(p) == get_cached_version(cache, p[1], cfg.cache_ttl_hours, Now)
      spec(p) == InstallSpec(p[1])
  IN SeqMap(spec, SelectSeq(packages_to_check,
                            LAMBDA p : Truthy(cached(p)) /\ p[2] # cached(p)))
\* lines 174-183 and 193-202: a resolved version that differs is planned
ResolvedPlan(pkgs, latest_versions) ==
  LET lat(p) == MapGet(latest_versions, p[1])
      spec(p) == InstallSpec(p[1])
  IN SeqMap(spec, SelectSeq(pkgs, LAMBDA p : lat(p) # None /\ p[2] # lat(p)))

\* The outcomes of lines 107-210: raised (the resolver call raised), or the
\* rows, the plan, the snapshot and the cache file as the check leaves them.
CheckOutcome(raised, rows, plan, snap, cache) ==
  [raised |-> raised, rows |-> rows, to_install |-> plan, snapshot |-> snap, cache |-> cache]

check_versions(namevers, cfg, include_project, use_cache, all_packages, cache) ==
  LET projectRows == ProjectRows(namevers, cfg)
      packages_to_check == PackagesToCheck(namevers, cfg)
      snap == Snapshot(namevers, cfg)
      exRows == ExcludedRows(ExcludedPackages(namevers, cfg, all_packages))
      cachedRows == CachedRows(packages_to_check, cache, cfg)
      projectPlan == ProjectPlan(namevers, cfg, include_project)
      cachedPlan == CachedPlan(packages_to_check, cache, cfg)
      seen == {r.name : r \in Range(projectRows \o cachedRows)}
      uncached == SelectSeq(packages_to_check, LAMBDA p : p[1] \notin seen)
  IN IF use_cache
     THEN IF uncached = << >>
          THEN {CheckOutcome(FALSE, projectRows \o cachedRows \o exRows,
                             projectPlan \o cachedPlan, snap, cache)}
          ELSE {IF r.raised
                THEN CheckOutcome(TRUE, projectRows \o cachedRows,
                                  projectPlan \o cachedPlan, snap, cache)
                ELSE LET resolved == ResolvedRows(uncached, r.value)
                     IN CheckOutcome(FALSE, projectRows \o cachedRows \o resolved \o exRows,
                                     projectPlan \o cachedPlan \o ResolvedPlan(uncached, r.value),
                                     snap, CacheResolved(cache, uncached, r.value)) :
                  r \in get_latest_versions_parallel(uncached, RESOLVER_CALL_ARGS)}
     ELSE {IF r.raised
           THEN CheckOutcome(TRUE, projectRows,
                             projectPlan, snap, cache)
           ELSE LET resolved == ResolvedRows(packages_to_check, r.value)
                IN CheckOutcome(FALSE, projectRows \o resolved \o exRows,
                                projectPlan \o ResolvedPlan(packages_to_check, r.value), snap, cache) :
             r \in get_latest_versions_parallel(packages_to_check, RESOLVER_CALL_ARGS)}

(***************************************************************************)
(* utils.py: the disk space check.                                         *)
(***************************************************************************)
MB_PER_PACKAGE == 50
BYTES_PER_MB == 1024 * 1024
\* shutil.disk_usage raised OSError
DISK_OSERROR == 0 - 1

estimate_update_size(package_count) == package_count * MB_PER_PACKAGE

\* a check that compares the free bytes with the megabytes needed
check_disk_space_bytes(min_mb, free) ==
  IF free = DISK_OSERROR THEN <<TRUE, 0 - 1>>
  ELSE <<free >= min_mb, free \div BYTES_PER_MB>>

\* <<sufficient_space, available_mb>>
check_disk_space(min_mb, free) ==
  IF free = DISK_OSERROR THEN <<TRUE, 0 - 1>>
  ELSE <<(free \div BYTES_PER_MB) >= min_mb, free \div BYTES_PER_MB>>

\* the free space the query may report: just below and just at the estimate
\* for one package, enough for all, or no answer
DiskFrees ==
  {DISK_OSERROR, MB_PER_PACKAGE * BYTES_PER_MB - 1, MB_PER_PACKAGE * BYTES_PER_MB,
   NumPkgs * MB_PER_PACKAGE * BYTES_PER_MB}

\* the exit codes of "volta install"
InstallReturnCodes == {0, 1, 2}

(***************************************************************************)
(* __init__.py: main, the flags.                                           *)
(***************************************************************************)
\* the flags that decide what main does (--json, --outdated-only and
\* --verbose only change what is printed)
FlagSets ==
  [force : BOOLEAN, update : BOOLEAN, dry : BOOLEAN, include_project : BOOLEAN,
   interactive : BOOLEAN, no_cache : BOOLEAN, quiet : BOOLEAN, all_packages : BOOLEAN]

\* lines 75-80
do_update_of(f) == f.force \/ f.update
do_check_of(f) == IF f.quiet /\ ~do_update_of(f) THEN FALSE ELSE ~f.force

\* sorted(S) for a set of strings
RECURSIVE Sorted(_)
Sorted(S) ==
  IF S = {} THEN << >>
  ELSE LET m == CHOOSE x \in S : \A y \in S \ {x} : StrLess(x, y)
       IN <<m>> \o Sorted(S \ {m})

\* lines 104-114: the packages of the fast path
FastPackages(nv, cfg, include_project) ==
  LET keep(p) == ~(p[2] = PROJECT /\ ~include_project) /\ ~should_exclude(cfg, p[1])
      kept == SelectSeq(SeqMap(parse_package, nv), keep)
  IN Sorted({kept[i][1] : i \in 1..Len(kept)})

(***************************************************************************)
(* The state.                                                              *)
(***************************************************************************)
VARIABLES
  pc,            \* where the command is: idle, fast_install, check_and_update,
                 \* update, save_snapshot, install, done, raised
  flags,         \* the command line flags of the run
  config,        \* the configuration the run loaded
  namevers,      \* the tokens get_installed_packages returned
  packages,      \* main: the packages of the fast path
  names, installed, latest, states,   \* check_and_update: the status records
  to_install,    \* check_and_update: the update plan
  snapshot,      \* check_and_update: the snapshot dict
  disk_free,     \* the free bytes of the disk when the update is prepared
  available_mb,  \* what check_disk_space reported, NOT_ASKED if it was not called
  prompts,       \* the typer.confirm prompts of the run and their answers
  events,        \* the snapshot writes, installs and history entries of the run
  install_rc,    \* the exit code of volta install, NO_RESULT if it did not run
  result,        \* the exit code, NO_RESULT while running or after raising
  cacheFile,     \* ~/.cache/voltamanager/versions.json
  snapshotFile,  \* ~/.voltamanager/last_snapshot.json
  historyLog     \* ~/.voltamanager/history.log

\* cache.py and npm.py called on their own
VARIABLES
  cacheKind,     \* what the cache file holds (CacheKinds); cacheFile is the
                 \* stored object when it holds one
  cacheMtime,    \* the st_mtime of the cache file: every write changes it
  _state,        \* cache.py: the module state, the in-memory copy and its mtime
  clock,         \* time.time()
  cacheOp,       \* the last call of get_cached_version or cache_version
  lastSet,       \* the entries cache_version wrote that are still in the file
  lookup,        \* npm.py: a get_latest_version call, attempt by attempt
  parallel,      \* npm.py: a get_latest_versions_parallel call
  pool           \* npm.py: the thread pool of a fan-out, thread by thread

\* the machine the commands run on, and the commands of a session
VARIABLES
  volta,            \* the packages volta has installed: name -> version
  rollbackOp,       \* __init__.py: the last rollback command
  snapshotAtStart,  \* the snapshot file as the current command found it
  voltaAtStart,     \* the installed packages as the current command found them
  previous,         \* what the command before this one did
  runs,             \* the number of commands of the session, this one included
  parsed            \* core.py: a parse_package call

vars == <<pc, flags, config, namevers, packages, names, installed, latest, states,
          to_install, snapshot, disk_free, available_mb, prompts, events,
          install_rc, result, cacheFile, snapshotFile, historyLog,
          cacheKind, cacheMtime, _state, clock, cacheOp, lastSet, lookup, parallel, pool,
          volta, rollbackOp, snapshotAtStart, voltaAtStart, previous, runs, parsed>>

cacheModuleVars == <<cacheKind, cacheMtime, _state, clock, cacheOp, lastSet>>
npmVars == <<lookup, parallel, pool>>
sessionVars == <<rollbackOp, snapshotAtStart, voltaAtStart, previous, runs>>
\* the state of a command run
mainVars == <<pc, flags, config, namevers, packages, names, installed, latest, states,
              to_install, snapshot, disk_free, available_mb, prompts, events,
              install_rc, result, snapshotFile, historyLog,
              volta, rollbackOp, snapshotAtStart, voltaAtStart, previous, runs>>
commandVars == <<mainVars, parsed>>

runVars == <<flags, config, namevers>>
checkVars == <<names, installed, latest, states, to_install, snapshot>>
diskVars == <<disk_free, available_mb>>
fileVars == <<cacheFile, snapshotFile, historyLog>>

NoFlags ==
  [force |-> FALSE, update |-> FALSE, dry |-> FALSE, include_project |-> FALSE,
   interactive |-> FALSE, no_cache |-> FALSE, quiet |-> FALSE, all_packages |-> FALSE]
\* no exit code yet; check_disk_space not called
NO_RESULT == 0 - 1
NOT_ASKED == 0 - 2
NoSnapshotFile == [exists |-> FALSE, data |-> << >>]
NoStore == [kind |-> "missing", data |-> EmptyCache]
NoCacheOp ==
  [op |-> "none", name |-> EmptyStr, ttl |-> 0, at |-> 0, fresh |-> FALSE, stale |-> FALSE,
   before |-> NoStore, after |-> NoStore, result |-> None]
NoLookup == [active |-> FALSE, attempt |-> 0, outcomes |-> << >>, sleeps |-> << >>, result |-> None]
NoBatch == [response |-> "", raised |-> None, value |-> << >>]
\* no thread pool was made
NO_POOL == 0 - 1
NoParallel ==
  [pc |-> "idle", packages |-> << >>, package_names |-> << >>, max_workers |-> NO_POOL,
   batch_calls |-> << >>, batch |-> NoBatch, submitted |-> << >>, futures |-> << >>,
   latest_versions |-> << >>]
\* the call of get_latest_versions_parallel ended in TypeError before its
\* first line: no name was taken, no pool was made
ResolverTypeError == [NoParallel EXCEPT !.pc = "type_error"]
NoPool ==
  [pc |-> "idle", package_names |-> << >>, max_workers |-> NO_POOL, submitted |-> 0,
   status |-> << >>, outcome |-> << >>, latest_versions |-> << >>]
NoRollback ==
  [called |-> FALSE, packages |-> << >>, force |-> FALSE, confirm |-> FALSE,
   packages_to_install |-> << >>, installs |-> 0]
NoPrevious == [kind |-> "none", updated |-> FALSE, volta |-> << >>, checkable |-> {}]
NoParse == [pc |-> "idle", scopedName |-> EmptyStr, versioned |-> FALSE,
            version |-> EmptyStr, name_ver |-> EmptyStr, result |-> <<EmptyStr, EmptyStr>>]
NoPackages == << >>

CommandOff ==
  /\ pc = "off"
  /\ flags = NoFlags
  /\ config \in {c \in Configs : c.exclude = {} /\ ~c.include_project}
  /\ namevers = << >>
  /\ packages = << >>
  /\ names = << >> /\ installed = << >> /\ latest = << >> /\ states = << >>
  /\ to_install = << >>
  /\ snapshot = << >>
  /\ disk_free = NOT_ASKED
  /\ available_mb = NOT_ASKED
  /\ prompts = << >>
  /\ events = << >>
  /\ install_rc = NO_RESULT
  /\ result = NO_RESULT
  /\ snapshotFile = NoSnapshotFile
  /\ historyLog = << >>
  /\ volta = NoPackages
  /\ rollbackOp = NoRollback
  /\ snapshotAtStart = NoSnapshotFile
  /\ voltaAtStart = NoPackages
  /\ previous = NoPrevious
  /\ runs = 1
\* no command is run
CommandIdle ==
  /\ CommandOff
  /\ parsed = NoParse
\* cache.py just imported, the cache file a well-formed object
CacheModuleIdle ==
  /\ cacheKind = "object"
  /\ cacheMtime = 1
  /\ _state = FreshState
  /\ clock = Now
  /\ cacheOp = NoCacheOp
  /\ lastSet = EmptyCache
\* npm.py not called
NpmIdle == lookup = NoLookup /\ parallel = NoParallel /\ pool = NoPool

Init ==
  /\ pc = "idle"
  /\ flags = NoFlags
  /\ config \in Configs
  /\ namevers = << >>
  /\ packages = << >>
  /\ names = << >> /\ installed = << >> /\ latest = << >> /\ states = << >>
  /\ to_install = << >>
  /\ snapshot = << >>
  /\ disk_free = NOT_ASKED
  /\ available_mb = NOT_ASKED
  /\ prompts = << >>
  /\ events = << >>
  /\ install_rc = NO_RESULT
  /\ result = NO_RESULT
  /\ cacheFile \in CacheFiles
  /\ snapshotFile = NoSnapshotFile
  /\ historyLog = << >>
  /\ CacheModuleIdle
  /\ NpmIdle
  /\ volta \in VoltaStates /\ Listing(volta) \in TokenLists(1)
  /\ rollbackOp = NoRollback
  /\ snapshotAtStart = NoSnapshotFile
  /\ voltaAtStart = volta
  /\ previous = NoPrevious
  /\ runs = 1
  /\ parsed = NoParse

\* the events of a run
SnapshotEvent(d) == [op |-> "snapshot", arg |-> d]
InstallEvent(pkgs) == [op |-> "install", arg |-> pkgs]
HistoryEvent(pkgs) == [op |-> "log_update", arg |-> pkgs]

\* raise typer.Exit(code) / return code
Exit(code) == pc' = "done" /\ result' = code

(***************************************************************************)
(* __init__.py: main (lines 71-134).                                       *)
(***************************************************************************)
MainWith(flagSets) ==
  /\ pc = "idle"
  /\ \E f \in flagSets, nv \in {Listing(volta)}, deps \in BOOLEAN :
       /\ flags' = f
       /\ IF ~deps
          THEN Exit(127) /\ UNCHANGED <<namevers, packages>>
          ELSE /\ namevers' = nv
               /\ IF nv = << >>
                  THEN Exit(0) /\ UNCHANGED packages
                  ELSE IF ~do_check_of(f) /\ ~do_update_of(f)
                  THEN /\ packages' = FastPackages(nv, config, f.include_project)
                       /\ pc' = "fast_install"
                       /\ UNCHANGED result
                  ELSE /\ pc' = "check_and_update"
                       /\ UNCHANGED <<packages, result>>
  /\ UNCHANGED <<config, checkVars, diskVars, prompts, events, install_rc, fileVars>>
  /\ UNCHANGED volta
  /\ UNCHANGED <<cacheModuleVars, npmVars, sessionVars, parsed>>

Main == MainWith(FlagSets)

(***************************************************************************)
(* operations.py: fast_install (lines 64-87) with log_update.              *)
(***************************************************************************)
log_update(log, pkgs) == Append(log, [count |-> Len(pkgs), packages |-> pkgs])

FastInstall ==
  /\ pc = "fast_install"
  /\ IF packages = << >> \/ flags.dry
     THEN Exit(0) /\ UNCHANGED <<events, install_rc, historyLog, volta>>
     ELSE \E rc \in InstallReturnCodes :
            /\ install_rc' = rc
            /\ volta' \in VoltaInstall(volta, packages, rc)
            /\ IF rc = 0
               THEN /\ events' = events \o <<InstallEvent(packages), HistoryEvent(packages)>>
                    /\ historyLog' = log_update(historyLog, packages)
                    /\ Exit(0)
               ELSE /\ events' = Append(events, InstallEvent(packages))
                    /\ Exit(rc)
                    /\ UNCHANGED historyLog
  /\ UNCHANGED <<runVars, packages, checkVars, diskVars, prompts, cacheFile, snapshotFile>>
  /\ UNCHANGED <<cacheModuleVars, npmVars, sessionVars, parsed>>

(***************************************************************************)
(* operations.py: check_and_update, lines 107-247: the version check and   *)
(* its report; without do_update the run returns 0 (line 321).             *)
(***************************************************************************)
Field(rows, f(_)) == SeqMap(f, rows)

CheckVersions ==
  /\ pc = "check_and_update"
  /\ \E o \in check_versions(namevers, config,
                             flags.include_project \/ config.include_project,
                             ~flags.no_cache, flags.all_packages, cacheFile) :
       IF o.raised
       THEN /\ pc' = "raised"
            /\ parallel' = ResolverTypeError
            /\ UNCHANGED <<checkVars, cacheFile, result>>
       ELSE /\ UNCHANGED parallel
            /\ names' = Field(o.rows, LAMBDA r : r.name)
            /\ installed' = Field(o.rows, LAMBDA r : r.installed)
            /\ latest' = Field(o.rows, LAMBDA r : r.latest)
            /\ states' = Field(o.rows, LAMBDA r : r.state)
            /\ to_install' = o.to_install
            /\ snapshot' = o.snapshot
            /\ cacheFile' = o.cache
            /\ IF do_update_of(flags)
               THEN pc' = "update" /\ UNCHANGED result
               ELSE Exit(0)
  /\ UNCHANGED <<runVars, packages, diskVars, prompts, events, install_rc,
                 snapshotFile, historyLog>>
  /\ UNCHANGED volta
  /\ UNCHANGED <<cacheModuleVars, lookup, pool, sessionVars, parsed>>

(***************************************************************************)
(* operations.py: check_and_update, lines 250-293: the empty plan, the     *)
(* disk space check, the interactive selection, the dry run.               *)
(***************************************************************************)
\* a selection that ignores the answers
Selected_all(plan, answers) == plan
\* lines 280-285: the packages the user confirmed, in plan order
Selected(plan, answers) ==
  LET idx == {i \in 1..Len(plan) : answers[i]}
      RECURSIVE pick(_)
      pick(i) == IF i > Len(plan) THEN << >>
                 ELSE (IF i \in idx THEN <<plan[i]>> ELSE << >>) \o pick(i + 1)
  IN pick(1)

\* a run that does not stop at an empty plan
PlanIsEmpty_never(plan) == FALSE
\* line 251: if not to_install
PlanIsEmpty(plan) == plan = << >>

\* a disk check that the dry run does not skip
DiskChecked_always(dry_run) == TRUE
\* line 256: the disk is checked unless the run is dry
DiskChecked(dry_run) == ~dry_run

PreparePlan ==
  /\ pc = "update"
  /\ IF PlanIsEmpty(to_install)
     THEN Exit(0) /\ UNCHANGED <<to_install, diskVars, prompts>>
     ELSE \E free \in DiskFrees, answers \in [1..Len(to_install) -> BOOLEAN] :
            LET space == check_disk_space(estimate_update_size(Len(to_install)), free)
                blocked == DiskChecked(flags.dry) /\ ~space[1] /\ space[2] >= 0
                asking == flags.interactive /\ to_install # << >>
                selected == IF asking THEN Selected(to_install, answers) ELSE to_install
            IN /\ disk_free' = free
               /\ available_mb' = IF DiskChecked(flags.dry) THEN space[2] ELSE NOT_ASKED
               /\ IF blocked
                  THEN Exit(1) /\ UNCHANGED <<to_install, prompts>>
                  ELSE /\ to_install' = selected
                       /\ prompts' = IF asking
                                     THEN [i \in 1..Len(to_install) |->
                                             [pkg |-> to_install[i], answer |-> answers[i]]]
                                     ELSE << >>
                       /\ IF (asking /\ selected = << >>) \/ flags.dry
                          THEN Exit(0)
                          ELSE pc' = "save_snapshot" /\ UNCHANGED result
  /\ UNCHANGED <<runVars, packages, names, installed, latest, states, snapshot,
                 events, install_rc, fileVars>>
  /\ UNCHANGED volta
  /\ UNCHANGED <<cacheModuleVars, npmVars, sessionVars, parsed>>

(***************************************************************************)
(* operations.py: save_snapshot (lines 57-61), called at line 296.         *)
(***************************************************************************)
\* a write that keeps the entries of the file the new snapshot does not name
save_snapshot_merging(d) ==
  [exists |-> TRUE,
   data |-> d \o SelectSeq(snapshotFile.data, LAMBDA en : en.k \notin DictKeys(d))]
save_snapshot(d) == [exists |-> TRUE, data |-> d]

\* an update that goes on to the install without writing the snapshot
SaveSnapshot_skipped ==
  /\ pc = "save_snapshot"
  /\ pc' = "install"
  /\ UNCHANGED <<runVars, packages, checkVars, diskVars, prompts, events, install_rc,
                 result, fileVars>>
  /\ UNCHANGED volta
  /\ UNCHANGED <<cacheModuleVars, npmVars, sessionVars, parsed>>

SaveSnapshot ==
  /\ pc = "save_snapshot"
  /\ snapshotFile' = save_snapshot(snapshot)
  /\ events' = Append(events, SnapshotEvent(snapshot))
  /\ pc' = "install"
  /\ UNCHANGED <<runVars, packages, checkVars, diskVars, prompts, install_rc, result,
                 cacheFile, historyLog>>
  /\ UNCHANGED volta
  /\ UNCHANGED <<cacheModuleVars, npmVars, sessionVars, parsed>>

(***************************************************************************)
(* operations.py: check_and_update, lines 299-319: volta install.          *)
(***************************************************************************)
\* lines 316-319: a failed install returns the exit code of volta
FailureCode_one(returncode) == 1
FailureCode(returncode) == returncode

Install ==
  /\ pc = "install"
  /\ \E rc \in InstallReturnCodes :
       /\ install_rc' = rc
       /\ volta' \in VoltaInstall(volta, to_install, rc)
       /\ IF rc = 0
          THEN /\ events' = events \o <<InstallEvent(to_install), HistoryEvent(to_install)>>
               /\ historyLog' = log_update(historyLog, to_install)
               /\ Exit(0)
          ELSE /\ events' = Append(events, InstallEvent(to_install))
               /\ Exit(FailureCode(rc))
               /\ UNCHANGED historyLog
  /\ UNCHANGED <<runVars, packages, checkVars, diskVars, prompts, cacheFile, snapshotFile>>
  /\ UNCHANGED <<cacheModuleVars, npmVars, sessionVars, parsed>>

Next == Main \/ FastInstall \/ CheckVersions \/ PreparePlan \/ SaveSnapshot \/ Install

Spec == Init /\ [][Next]_vars

(***************************************************************************)
(* What the claims speak of.                                               *)
(***************************************************************************)
\* the run went into check_and_update (main, lines 118-134)
CheckAndUpdateRun ==
  namevers # << >> /\ (do_check_of(flags) \/ do_update_of(flags))
\* the command returned an exit code (it did not raise)
Returned == pc = "done"

EventsOf(op) == {i \in 1..Len(events) : events[i].op = op}
InstallInvoked == EventsOf("install") # {}
SnapshotWritten == EventsOf("snapshot") # {}
HistoryRecorded == EventsOf("log_update") # {} \/ historyLog # << >>

\* the (name, version) pairs volta listed
InstalledPairs ==
  {pr \in PkgNames \X (InstalledVersions \cup LatestVersions) : \E i \in 1..Len(namevers) : namevers[i] = Token(pr[1], pr[2])}
include_project_eff == flags.include_project \/ config.include_project

\* the status records, as rows
Records == [i \in 1..Len(names) |->
              [name |-> names[i], installed |-> installed[i], latest |-> latest[i], state |-> states[i]]]
\* the version check of check_and_update has produced its records
Checked ==
  CheckAndUpdateRun /\ pc \in {"update", "save_snapshot", "install", "done"}

\* C1: in a check_and_update run every install invocation comes after a
\* snapshot write, and no snapshot write comes after an install invocation.
C1_SnapshotBeforeInstall ==
  CheckAndUpdateRun =>
    \A i \in EventsOf("install") :
      /\ \E j \in EventsOf("snapshot") : j < i
      /\ \A j \in EventsOf("snapshot") : j < i
C1_Witness ==
  CheckAndUpdateRun /\ Returned /\ InstallInvoked /\ SnapshotWritten

\* C2: without --update and without --force the install operation is never
\* invoked, whatever the other flags.
C2_CheckOnlyNeverInstalls ==
  (~flags.update /\ ~flags.force) => ~InstallInvoked

\* the plan the update was prepared for, before the interactive selection
PlanSizeAtGate == IF prompts # << >> THEN Len(prompts) ELSE Len(to_install)
\* the disk was asked and has less free space than 50 MB per planned package
SpaceBelowEstimate ==
  /\ disk_free # NOT_ASKED /\ disk_free # DISK_OSERROR
  /\ disk_free < PlanSizeAtGate * MB_PER_PACKAGE * BYTES_PER_MB

\* C3: an update that is not a dry run, with a non-empty plan and less free
\* space than 50 MB per planned package, returns 1 without install, snapshot
\* or history entry.
C3_DiskGateBlocks ==
  (CheckAndUpdateRun /\ do_update_of(flags) /\ ~flags.dry /\ Returned
     /\ PlanSizeAtGate > 0 /\ SpaceBelowEstimate)
    => /\ result = 1
       /\ ~InstallInvoked /\ ~SnapshotWritten /\ ~HistoryRecorded
       /\ snapshotFile = NoSnapshotFile
C3_Witness ==
  /\ CheckAndUpdateRun /\ do_update_of(flags) /\ ~flags.dry /\ Returned
  /\ PlanSizeAtGate > 0 /\ SpaceBelowEstimate /\ result = 1

\* the names with a status record of the given state
NamesIn(state) == {Records[i].name : i \in {j \in 1..Len(Records) : Records[j].state = state}}
\* the packages the installs of the run were given
InstalledSpecs == UNION {Range(events[i].arg) : i \in EventsOf("install")}

\* C4 as claimed: when the install is invoked the snapshot file holds the
\* installed version of every checkable package and, with project inclusion,
\* of every project package, so every planned package has a snapshot entry.
C4_SnapshotCoversPlan ==
  (CheckAndUpdateRun /\ InstallInvoked) =>
    /\ snapshotFile.exists
    /\ \A pr \in InstalledPairs :
         (pr[1] \notin config.exclude /\ (pr[2] # PROJECT \/ include_project_eff))
           => DictGet(snapshotFile.data, pr[1]) = pr[2]
    /\ \A sp \in InstalledSpecs : \E n \in DictKeys(snapshotFile.data) : sp = InstallSpec(n)
\* C4 as amended: when the install is invoked the snapshot file holds the
\* installed version of exactly the checkable packages; project packages are
\* never in it, so a planned package has a snapshot entry iff it is OUTDATED.
C4_SnapshotCoversCheckable ==
  (CheckAndUpdateRun /\ InstallInvoked) =>
    /\ snapshotFile.exists
    /\ \A pr \in InstalledPairs :
         IF pr[1] \notin config.exclude /\ pr[2] # PROJECT
         THEN DictGet(snapshotFile.data, pr[1]) = pr[2]
         ELSE pr[1] \notin DictKeys(snapshotFile.data)
    /\ DictKeys(snapshotFile.data) \subseteq {pr[1] : pr \in InstalledPairs}
    /\ \A sp \in InstalledSpecs :
         (\E n \in DictKeys(snapshotFile.data) : sp = InstallSpec(n))
           <=> (\E n \in NamesIn("OUTDATED") : sp = InstallSpec(n))
C4_Witness ==
  /\ CheckAndUpdateRun /\ InstallInvoked /\ include_project_eff
  /\ \E n \in NamesIn("PROJECT") : InstallSpec(n) \in InstalledSpecs
  /\ \E n \in NamesIn("OUTDATED") : InstallSpec(n) \in InstalledSpecs

\* C5: when volta install fails, check_and_update returns its exit code, the
\* snapshot written before the install is still the snapshot file, and the
\* run records no history entry.
C5_InstallFailurePropagates ==
  (CheckAndUpdateRun /\ Returned /\ install_rc # NO_RESULT /\ install_rc # 0) =>
    /\ result = install_rc
    /\ \E i \in EventsOf("snapshot") :
         /\ i < Len(events)
         /\ snapshotFile = [exists |-> TRUE, data |-> events[i].arg]
         /\ events[i].arg = snapshot
    /\ ~HistoryRecorded
C5_Witness ==
  CheckAndUpdateRun /\ Returned /\ install_rc = 2 /\ result = 2 /\ snapshot # << >>

NothingPlanned ==
  NamesIn("OUTDATED") = {} /\ (NamesIn("PROJECT") = {} \/ ~include_project_eff)

ExpectedPlan ==
  LET planned == SelectSeq(Records, LAMBDA r : r.state = "OUTDATED"
                                      \/ (r.state = "PROJECT" /\ include_project_eff))
  IN [i \in 1..Len(planned) |-> InstallSpec(planned[i].name)]

\* the packages the user confirmed, in the order they were asked
Confirmed ==
  LET yes == SelectSeq(prompts, LAMBDA q : q.answer)
  IN [i \in 1..Len(yes) |-> yes[i].pkg]

\* C8: an interactive update asks for every planned package, installs exactly
\* the confirmed ones in plan order, and with none confirmed returns 0 without
\* install and without snapshot.
C8_InteractiveSelection ==
  (CheckAndUpdateRun /\ do_update_of(flags) /\ flags.interactive) =>
    /\ prompts # << >> => [i \in 1..Len(prompts) |-> prompts[i].pkg] = ExpectedPlan
    /\ \A i \in EventsOf("install") : prompts # << >> /\ events[i].arg = Confirmed
    /\ (Returned /\ prompts # << >> /\ Confirmed = << >>)
         => (result = 0 /\ ~InstallInvoked /\ ~SnapshotWritten /\ snapshotFile = NoSnapshotFile)
C8_Witness ==
  /\ CheckAndUpdateRun /\ flags.interactive /\ InstallInvoked
  /\ Len(Confirmed) = 1 /\ Len(prompts) = 2 /\ prompts[2].answer

\* C9: the plan is name@latest of exactly the OUTDATED records and, iff
\* project inclusion is on, the PROJECT records; nothing else is installed.
C9_PlanFromRecords ==
  /\ (CheckAndUpdateRun /\ pc = "update") => to_install = ExpectedPlan
  /\ CheckAndUpdateRun => InstalledSpecs \subseteq Range(ExpectedPlan)
  /\ Checked =>
       /\ Range(to_install) \subseteq Range(ExpectedPlan)
       /\ \A n \in NamesIn("up-to-date") \cup NamesIn("UNKNOWN") \cup NamesIn("EXCLUDED")
                   \cup config.exclude :
            InstallSpec(n) \notin Range(to_install) \cup InstalledSpecs
       /\ ~include_project_eff =>
            \A n \in NamesIn("PROJECT") : InstallSpec(n) \notin Range(to_install) \cup InstalledSpecs
C9_Witness ==
  /\ CheckAndUpdateRun /\ pc = "update" /\ include_project_eff
  /\ NamesIn("OUTDATED") # {} /\ NamesIn("PROJECT") # {}
  /\ Len(to_install) = 2

\* C10 as claimed: a record is PROJECT iff its token's version was "project".
C10_ProjectIffProjectVersion ==
  Checked => \A i \in 1..Len(Records) :
               Records[i].state = "PROJECT" <=> Records[i].installed = PROJECT
\* C10 as amended: a record is PROJECT iff its token's version was "project"
\* and its name is not excluded; every such token has a PROJECT record.
C10_ProjectIffNotExcluded ==
  Checked =>
    /\ \A i \in 1..Len(Records) :
         /\ <<Records[i].name, Records[i].installed>> \in InstalledPairs
         /\ Records[i].state = "PROJECT"
              <=> (Records[i].installed = PROJECT /\ Records[i].name \notin config.exclude)
    /\ \A pr \in InstalledPairs :
         (pr[2] = PROJECT /\ pr[1] \notin config.exclude) => pr[1] \in NamesIn("PROJECT")
C10_Witness ==
  /\ Checked /\ NamesIn("PROJECT") # {}
  /\ \E i \in 1..Len(Records) :
       Records[i].state = "EXCLUDED" /\ Records[i].installed = PROJECT

(***************************************************************************)
(* cache.py called on its own: lookups and sets of one process, while      *)
(* time passes, the process is restarted, and the file is overwritten or   *)
(* deleted from outside.                                                   *)
(***************************************************************************)
MaxWrites == 2
\* the instants of a run: the start, one second later, and around one hour later
Instants ==
  {Now, Now + 1, Now + SECONDS_PER_HOUR - 1, Now + SECONDS_PER_HOUR, Now + SECONDS_PER_HOUR + 1}
\* the ttl_hours a caller passes
TtlHours == {0, DEFAULT_CACHE_TTL_HOURS}

Store == [kind |-> cacheKind, data |-> cacheFile]
CacheOp(op, name, ttl, after, res) ==
  [op |-> op, name |-> name, ttl |-> ttl, at |-> clock, fresh |-> ~_state.loaded,
   stale |-> _state.loaded /\ _state.mtime # cacheMtime,
   before |-> Store, after |-> after, result |-> res]

CacheInit ==
  /\ CommandIdle
  /\ NpmIdle
  /\ cacheKind \in CacheKinds
  /\ cacheFile \in IF cacheKind = "object" THEN StoredObjects ELSE {EmptyCache}
  /\ cacheMtime = 1
  /\ _state = FreshState
  /\ clock = Now
  /\ cacheOp = NoCacheOp
  /\ lastSet = EmptyCache

\* get_cached_version(package_name, ttl_hours), lines 51-76
GetCachedVersion ==
  /\ \E package_name \in PkgNames, ttl_hours \in TtlHours :
       LET l == _load_cache(cacheKind, cacheFile, cacheMtime, _state)
           r == IF Raises(l.raised) THEN l.raised
                ELSE get_cached_version(l.cache, package_name, ttl_hours, clock)
       IN /\ _state' = l.state
          /\ cacheOp' = CacheOp("get_cached_version", package_name, ttl_hours, Store, r)
  /\ UNCHANGED <<cacheFile, cacheKind, cacheMtime, clock, lastSet>>
  /\ UNCHANGED <<commandVars, npmVars>>

\* cache_version(package_name, version), lines 79-83, with _save_cache
CacheVersion ==
  /\ cacheMtime <= MaxWrites
  /\ \E package_name \in PkgNames, version \in LatestVersions :
       LET l == _load_cache(cacheKind, cacheFile, cacheMtime, _state)
           cache == cache_version(l.cache, package_name, version, clock)
       IN IF Raises(l.raised)
          THEN /\ _state' = l.state
               /\ cacheOp' = CacheOp("cache_version", package_name, 0, Store, l.raised)
               /\ UNCHANGED <<cacheFile, cacheKind, cacheMtime, lastSet>>
          ELSE /\ cacheFile' = cache
               /\ cacheKind' = "object"
               /\ cacheMtime' = cacheMtime + 1
               /\ _state' = [loaded |-> TRUE, cache |-> cache, mtime |-> cacheMtime + 1]
               /\ lastSet' = [n \in (DOMAIN lastSet) \cup {package_name} |->
                                IF n = package_name THEN cache[n] ELSE lastSet[n]]
               /\ cacheOp' = CacheOp("cache_version", package_name, 0,
                                     [kind |-> "object", data |-> cache], None)
  /\ UNCHANGED clock
  /\ UNCHANGED <<commandVars, npmVars>>

\* time passes
ClockAdvance ==
  /\ \E t \in Instants : t > clock /\ clock' = t
  /\ UNCHANGED <<cacheFile, cacheKind, cacheMtime, _state, cacheOp, lastSet>>
  /\ UNCHANGED <<commandVars, npmVars>>

\* the process ends and a new one imports cache.py (line 14)
NewProcess ==
  /\ _state # FreshState
  /\ _state' = FreshState
  /\ UNCHANGED <<cacheFile, cacheKind, cacheMtime, clock, cacheOp, lastSet>>
  /\ UNCHANGED <<commandVars, npmVars>>

\* the cache file is deleted, or overwritten with something that is not a
\* JSON object
WriteGarbage ==
  /\ cacheMtime <= MaxWrites
  /\ \E kind \in CacheKinds \ {"object"} :
       /\ cacheKind' = kind
       /\ cacheFile' = EmptyCache
       /\ cacheMtime' = cacheMtime + 1
       /\ lastSet' = EmptyCache
  /\ UNCHANGED <<_state, clock, cacheOp>>
  /\ UNCHANGED <<commandVars, npmVars>>

\* another voltamanager process saves its cache (_save_cache, lines 43-48): the
\* file is an object of entries cache_version wrote, with a new mtime
OtherProcessWrites ==
  /\ cacheMtime <= MaxWrites
  /\ \E theirs \in CacheFiles :
       /\ cacheKind' = "object"
       /\ cacheFile' = theirs
       /\ cacheMtime' = cacheMtime + 1
       /\ lastSet' = EmptyCache
  /\ UNCHANGED <<_state, clock, cacheOp>>
  /\ UNCHANGED <<commandVars, npmVars>>

\* another voltamanager process clears the cache (clear_cache, lines 86-91):
\* the file is unlinked
OtherProcessClears ==
  /\ cacheMtime <= MaxWrites
  /\ cacheKind # "missing"
  /\ cacheKind' = "missing"
  /\ cacheFile' = EmptyCache
  /\ cacheMtime' = cacheMtime + 1
  /\ lastSet' = EmptyCache
  /\ UNCHANGED <<_state, clock, cacheOp>>
  /\ UNCHANGED <<commandVars, npmVars>>

CacheNext == GetCachedVersion \/ CacheVersion \/ ClockAdvance \/ NewProcess \/ WriteGarbage

\* two processes share the cache file
SharedCacheNext ==
  GetCachedVersion \/ CacheVersion \/ OtherProcessWrites \/ OtherProcessClears
SharedCacheSpec == CacheInit /\ [][SharedCacheNext]_vars

CacheSpec == CacheInit /\ [][CacheNext]_vars

(***************************************************************************)
(* What the claims about cache.py speak of.                                *)
(***************************************************************************)
Looked == cacheOp.op = "get_cached_version"
WasSet == cacheOp.op = "cache_version"
\* the looked-up entry was written by cache_version and is still in the file
LookedOwnEntry == Looked /\ cacheOp.name \in DOMAIN lastSet
\* T + h*3600 of the looked-up entry
ExpiryOfLooked == lastSet[cacheOp.name].ts + cacheOp.ttl * SECONDS_PER_HOUR
\* the stored object a call found, empty when the file held none
Loadable(store) == IF store.kind = "object" THEN store.data ELSE EmptyCache
\* the file a lookup found was not a well-formed cache
StoreCorrupt(store, name) ==
  \/ store.kind \in {"invalid_json", "non_utf8", "not_object"}
  \/ store.kind = "object" /\ name \in DOMAIN store.data /\ store.data[name] \in BadEntries

\* C13 as claimed: an entry written at T is returned by a lookup with
\* ttl_hours = h at every time before T + h*3600 and is absent at T + h*3600
\* and later.
C13_ExpiresAtBoundary ==
  LookedOwnEntry =>
    cacheOp.result = IF cacheOp.at < ExpiryOfLooked THEN lastSet[cacheOp.name].v ELSE None

\* C14 as claimed: whatever the cache file holds that is not a well-formed
\* cache, get_cached_version returns None and does not raise.
C14_CorruptStoreReadsAbsent ==
  (Looked /\ StoreCorrupt(cacheOp.before, cacheOp.name)) => cacheOp.result = None

ShadowInUse == cacheKind # "missing" /\ _state.loaded /\ _state.mtime = cacheMtime
\* the call found a dict in memory that was loaded before the file last changed
AfterForeignWrite == cacheOp.stale /\ cacheOp.before.kind \in {"object", "missing"}

MaxNames == 11

\* the package lists a caller passes: the first n packages, after a
\* project-pinned one or not
ParallelInputs ==
  {(IF proj THEN <<<<PkgName(MaxNames + 1), PROJECT>>>> ELSE << >>)
     \o [i \in 1..n |-> <<PkgName(i), V1>>] : n \in 0..MaxNames, proj \in BOOLEAN}
\* line 112
NonProjectNames(pkgs) ==
  LET kept == SelectSeq(pkgs, LAMBDA p : p[2] # PROJECT)
  IN [i \in 1..Len(kept) |-> kept[i][1]]

NpmInit ==
  /\ CommandIdle
  /\ cacheFile = EmptyCache
  /\ CacheModuleIdle
  /\ NpmIdle

NpmUntouched == UNCHANGED <<commandVars, cacheFile, cacheModuleVars>>

\* get_latest_version(package_name) is called
LookupCall ==
  /\ lookup = NoLookup /\ parallel = NoParallel
  /\ lookup' = [NoLookup EXCEPT !.active = TRUE]
  /\ UNCHANGED <<parallel, pool>>
  /\ NpmUntouched

\* one attempt of the call
LookupAttempt ==
  /\ lookup.active
  /\ \E outcome \in AttemptOutcomes : lookup' = get_latest_version_attempt(lookup, outcome)
  /\ UNCHANGED <<parallel, pool>>
  /\ NpmUntouched

\* get_latest_versions_batch(package_names) called on its own
BatchCall ==
  /\ lookup = NoLookup /\ parallel = NoParallel
  /\ \E pkgs \in ParallelInputs, response \in BatchResponses :
       LET package_names == NonProjectNames(pkgs)
       IN parallel' = [NoParallel EXCEPT !.pc = "batch_only",
                                         !.package_names = package_names,
                                         !.batch_calls = <<package_names>>,
                                         !.batch = get_latest_versions_batch(package_names, response)]
  /\ UNCHANGED <<lookup, pool>>
  /\ NpmUntouched

\* lines 111-118: the call, up to the choice between batch and fan-out
ParallelCall ==
  /\ lookup = NoLookup /\ parallel = NoParallel
  /\ \E pkgs \in ParallelInputs :
       LET package_names == NonProjectNames(pkgs)
           called == [NoParallel EXCEPT !.packages = pkgs, !.package_names = package_names]
       IN parallel' =
            IF package_names = << >> THEN [called EXCEPT !.pc = "returned"]
            ELSE IF TriesBatch(package_names) THEN [called EXCEPT !.pc = "batch"]
            ELSE [called EXCEPT !.pc = "fanout"]
  /\ UNCHANGED <<lookup, pool>>
  /\ NpmUntouched

\* lines 119-121: the batch query
ParallelBatch ==
  /\ parallel.pc = "batch"
  /\ \E response \in BatchResponses :
       LET batch_results == get_latest_versions_batch(parallel.package_names, response)
           queried == [parallel EXCEPT !.batch_calls = Append(parallel.batch_calls, parallel.package_names),
                                       !.batch = batch_results]
       IN parallel' =
            IF Raises(batch_results.raised) THEN [queried EXCEPT !.pc = "raised"]
            ELSE IF batch_results.value # << >>
            THEN [queried EXCEPT !.pc = "returned", !.latest_versions = batch_results.value]
            ELSE [queried EXCEPT !.pc = "fanout"]
  /\ UNCHANGED <<lookup, pool>>
  /\ NpmUntouched

\* lines 136-150: one get_latest_version per name is submitted to the pool and
\* the results are collected as they complete
ParallelFanOut ==
  /\ parallel.pc = "fanout"
  /\ \E futures \in [{parallel.package_names[i] : i \in 1..Len(parallel.package_names)} -> FutureOutcomes] :
       parallel' = [parallel EXCEPT !.pc = "returned",
                                    !.max_workers = DEFAULT_MAX_WORKERS,
                                    !.submitted = parallel.package_names,
                                    !.futures = futures,
                                    !.latest_versions = collect_futures(parallel.package_names, futures)]
  /\ UNCHANGED <<lookup, pool>>
  /\ NpmUntouched

NpmNext ==
  LookupCall \/ LookupAttempt \/ BatchCall \/ ParallelCall \/ ParallelBatch \/ ParallelFanOut

NpmSpec == NpmInit /\ [][NpmNext]_vars

(***************************************************************************)
(* What the claims about npm.py speak of.                                  *)
(***************************************************************************)
LookupFinished == ~lookup.active /\ lookup.outcomes # << >>
Attempts == Len(lookup.outcomes)
\* timeouts, network errors and responses that cannot be read
TransientFailures ==
  {"timeout", "url_error", "http_error", "disconnected", "invalid_json", "non_utf8"}
FailedAttempts == Len(SelectSeq(lookup.outcomes, LAMBDA o : o \in TransientFailures))

\* C16 as claimed: at most 3 attempts; a sleep of 0.5 s after the first failed
\* attempt and of 1.0 s after the second, none after the third; the call
\* returns the version at the first successful attempt; every transient
\* failure is retried, and after three of them the call returns None.
C16_RetrySchedule ==
  /\ Attempts <= MAX_RETRIES + 1
  /\ lookup.sleeps = SubSeq(RETRY_DELAYS, 1, IF FailedAttempts < MAX_RETRIES
                                             THEN FailedAttempts ELSE MAX_RETRIES)
  /\ \A i \in 1..(Attempts - 1) : lookup.outcomes[i] # "version"
  /\ LookupFinished =>
       /\ lookup.outcomes[Attempts] = "version" => lookup.result = V2
       /\ lookup.outcomes[Attempts] \in TransientFailures =>
            Attempts = MAX_RETRIES + 1 /\ lookup.result = None

\* C17 as claimed: whatever the requests end with, get_latest_version returns
\* a version or None and raises nothing.
C17_LookupNeverRaises ==
  LookupFinished => lookup.result \in {V2, None}

BatchFailures ==
  {"url_error", "http_error", "timeout", "disconnected", "invalid_json", "non_utf8", "not_object"}
\* C18 as claimed: get_latest_versions_batch raises nothing, and returns the
\* empty map when the request fails or its response cannot be parsed into
\* per-package data.
C18_BatchFailureIsEmptyMap ==
  parallel.pc = "batch_only" =>
    /\ ~Raises(parallel.batch.raised)
    /\ parallel.batch.response \in BatchFailures => parallel.batch.value = << >>

ParallelEnded == parallel.pc \in {"returned", "raised"}
BatchTried == parallel.batch_calls # << >>
BatchAnswered == BatchTried /\ ~Raises(parallel.batch.raised) /\ parallel.batch.value # << >>
\* what C19 says of the batch result and of the single lookups
C19_AfterBatch ==
  /\ BatchTried => parallel.batch_calls = <<parallel.package_names>>
  /\ BatchAnswered =>
       parallel.latest_versions = parallel.batch.value /\ parallel.submitted = << >>
  /\ (parallel.pc = "returned" /\ ~BatchAnswered) =>
       parallel.submitted = parallel.package_names

\* C19 as claimed: the batch query is tried iff there are at most 10
\* non-project names.
C19_BatchIffAtMostTen ==
  ParallelEnded =>
    /\ BatchTried <=> Len(parallel.package_names) <= BATCH_THRESHOLD
    /\ C19_AfterBatch

\* C19: the batch query is tried iff there are between 1 and 10 non-project
\* names; a non-empty batch result is returned without single lookups; after
\* an empty one, or with more than 10 names, one lookup per name is issued.
C19_BatchIffOneToTen ==
  ParallelEnded =>
    /\ BatchTried <=> (Len(parallel.package_names) >= 1
                        /\ Len(parallel.package_names) <= BATCH_THRESHOLD)
    /\ C19_AfterBatch
C19_Witness ==
  /\ parallel.pc = "returned"
  /\ Len(parallel.package_names) = BATCH_THRESHOLD + 1
  /\ Len(parallel.packages) = BATCH_THRESHOLD + 2
  /\ ~BatchTried
  /\ Len(parallel.submitted) = BATCH_THRESHOLD + 1

\* C20: in the fan-out an exception of one lookup becomes None for that
\* package; the call returns a map with an entry for every non-project name,
\* the other entries being what their lookups returned.
C20_FanOutIsolatesFailures ==
  /\ parallel.pc = "raised" => parallel.submitted = << >>
  /\ (parallel.pc = "returned" /\ parallel.submitted # << >>) =>
       /\ DOMAIN parallel.latest_versions = Range(parallel.package_names)
       /\ \A n \in Range(parallel.package_names) :
            parallel.latest_versions[n] =
              IF parallel.futures[n] = WorkerException THEN None ELSE parallel.futures[n]
C20_Witness ==
  /\ parallel.pc = "returned" /\ parallel.submitted # << >>
  /\ \E n, m \in Range(parallel.package_names) :
       /\ parallel.futures[n] = WorkerException /\ parallel.latest_versions[n] = None
       /\ parallel.futures[m] = V2 /\ parallel.latest_versions[m] = V2

(***************************************************************************)
(* The version check of check_and_update, as the claims state it.          *)
(***************************************************************************)
\* the version check is over: it raised, or the run went on
CheckEnded ==
  CheckAndUpdateRun /\ pc \in {"raised", "update", "save_snapshot", "install", "done"}
\* the checkable packages: not excluded, version not "project"
Checkable ==
  {pr \in InstalledPairs : pr[2] # PROJECT /\ ~should_exclude(config, pr[1])}
RecordsOf(name) == {i \in 1..Len(Records) : Records[i].name = name}

\* C22 as claimed: when a check_and_update run has looked versions up, the
\* lookups ran in a pool of config.parallel_checks threads.
C22_PoolOfParallelChecks ==
  (CheckAndUpdateRun /\ parallel.pc # "idle") =>
    parallel.max_workers = config.parallel_checks

\* C25 as claimed: a --force run that is neither a dry run nor interactive and
\* ends with code 0 has passed every installed package that is neither
\* excluded nor project-pinned to install, outdated or not.
C25_ForceUpdatesAll ==
  (CheckAndUpdateRun /\ flags.force /\ ~flags.dry /\ ~flags.interactive
     /\ Returned /\ result = 0)
    => \A pr \in Checkable : InstallSpec(pr[1]) \in InstalledSpecs

\* the two version checks got the same answers: their records name the same
\* latest version for every package both have a record of
SameAnswers(a, b) ==
  \A i \in 1..Len(a.rows), j \in 1..Len(b.rows) :
    a.rows[i].name = b.rows[j].name => a.rows[i].latest = b.rows[j].latest
\* the records of the packages the configuration does not exclude
KeptRecords(o) == {r \in Range(o.rows) : ~should_exclude(config, r.name)}

\* C30 as claimed: from an empty cache, with the same tokens, configuration
\* and resolver answers, the version check with the cache and the one without
\* both complete, with the same status records and the same install specs,
\* and one record for every token that is not excluded.
C30_CacheIsTransparent ==
  pc = "check_and_update" =>
    \A a \in check_versions(namevers, config, include_project_eff, TRUE,
                             flags.all_packages, EmptyCache),
       b \in check_versions(namevers, config, include_project_eff, FALSE,
                             flags.all_packages, EmptyCache) :
      /\ ~a.raised /\ ~b.raised
      /\ SameAnswers(a, b) =>
           /\ Range(a.rows) = Range(b.rows)
           /\ Range(a.to_install) = Range(b.to_install)
           /\ \A pr \in InstalledPairs :
                ~should_exclude(config, pr[1]) =>
                  /\ Cardinality({r \in KeptRecords(a) : r.name = pr[1]}) = 1
                  /\ Cardinality({r \in KeptRecords(b) : r.name = pr[1]}) = 1

\* C11 as claimed: every checkable package gets exactly one state, with or
\* without the cache: UNKNOWN iff the latest version is "?", otherwise
\* OUTDATED iff installed and latest differ, otherwise up-to-date.
C11_EveryCheckableClassified ==
  CheckEnded =>
    \A pr \in Checkable :
      /\ Cardinality(RecordsOf(pr[1])) = 1
      /\ \A i \in RecordsOf(pr[1]) :
           /\ Records[i].installed = pr[2]
           /\ Records[i].state =
                IF Records[i].latest = UNKNOWN_LATEST THEN "UNKNOWN"
                ELSE IF Records[i].installed # Records[i].latest THEN "OUTDATED"
                ELSE "up-to-date"

\* C12 as claimed: with the cache enabled every checkable package is answered
\* by the cache or, in one call, by the resolver, and every version the
\* resolver returned is in the cache afterwards.
C12_MissesResolvedAndCached ==
  (CheckEnded /\ ~flags.no_cache) =>
    \A pr \in Checkable :
      \E i \in RecordsOf(pr[1]) :
        \/ Records[i].latest = UNKNOWN_LATEST
        \/ /\ pr[1] \in DOMAIN cacheFile
           /\ cacheFile[pr[1]].v = Records[i].latest

(***************************************************************************)
(* core.py: parse_package on scoped names (lines 76-92).  A call is made   *)
(* with a scoped name, alone or followed by "@" and a version.             *)
(***************************************************************************)
MaxNameLen == 3
MaxVersionLen == 2
\* the strings over an alphabet, up to a length
RECURSIVE Strings(_, _)
Strings(alphabet, n) ==
  IF n = 0 THEN {EmptyStr}
  ELSE LET shorter == Strings(alphabet, n - 1)
       IN shorter \cup {Append(s, c) : s \in shorter, c \in alphabet}
\* "@" and then a text with exactly one "/"
ScopedNames ==
  {AT \o t : t \in {u \in Strings({"s", "/", "@"}, MaxNameLen) :
                      Cardinality(Positions(u, "/")) = 1}}
\* version texts, none with an "@"
VersionTexts == Strings({"1", "."}, MaxVersionLen)
ParseCall(n, versioned, v) ==
  [pc |-> "called", scopedName |-> n, versioned |-> versioned, version |-> v,
   name_ver |-> IF versioned THEN n \o AT \o v ELSE n,
   result |-> <<EmptyStr, EmptyStr>>]
ParseInputs ==
  {ParseCall(n, TRUE, v) : n \in ScopedNames, v \in VersionTexts}
  \cup {ParseCall(n, FALSE, EmptyStr) : n \in ScopedNames}

ParseInit ==
  /\ CommandOff
  /\ cacheFile = EmptyCache
  /\ CacheModuleIdle
  /\ NpmIdle
  /\ parsed \in ParseInputs

ParsePackage ==
  /\ parsed.pc = "called"
  /\ parsed' = [parsed EXCEPT !.pc = "returned",
                              !.result = parse_package(parsed.name_ver)]
  /\ UNCHANGED <<mainVars, cacheFile, cacheModuleVars, npmVars>>

ParseNext == ParsePackage
ParseSpec == ParseInit /\ [][ParseNext]_vars

\* the scoped name has no "@" but the leading one
OneAt(n) == Cardinality(Positions(n, "@")) = 1

\* C26 as stated: a scoped name followed by "@" and a version parses to
\* (scopedName, version), and a scoped name alone parses to (scopedName, "").
C26_ScopedRoundTrip ==
  parsed.pc = "returned" =>
    parsed.result = <<parsed.scopedName, parsed.version>>

\* C26, amended: a scoped name followed by "@" and a version parses to
\* (scopedName, version); a scoped name alone parses to (scopedName, "") when
\* its only "@" is the leading one.
C26_ScopedRoundTripOneAt ==
  (parsed.pc = "returned" /\ (parsed.versioned \/ OneAt(parsed.scopedName))) =>
    parsed.result = <<parsed.scopedName, parsed.version>>

C26_Witness ==
  /\ parsed.pc = "returned"
  /\ parsed.versioned
  /\ ~OneAt(parsed.scopedName)
  /\ Len(parsed.version) = MaxVersionLen
  /\ parsed.result = <<parsed.scopedName, parsed.version>>


(***************************************************************************)
(* npm.py: the fan-out of get_latest_versions_parallel (lines 136-150),    *)
(* thread by thread.  The executor has max_workers threads and a FIFO      *)
(* queue; the caller submits one get_latest_version per name, then takes   *)
(* the futures as they complete; leaving the with block and returning      *)
(* follow the last future.                                                 *)
(***************************************************************************)
MaxPoolNames == 3
MaxPoolWorkers == 2
Pending == <<"pending">>

PoolCall(n, max_workers) ==
  [pc |-> "submitting", package_names |-> [i \in 1..n |-> PkgName(i)],
   max_workers |-> max_workers, submitted |-> 0,
   status |-> [i \in 1..n |-> "new"], outcome |-> [i \in 1..n |-> Pending],
   latest_versions |-> << >>]

PoolInit ==
  /\ CommandIdle
  /\ cacheFile = EmptyCache
  /\ CacheModuleIdle
  /\ lookup = NoLookup /\ parallel = NoParallel
  /\ pool \in {PoolCall(n, w) : n \in 1..MaxPoolNames, w \in 1..MaxPoolWorkers}

PoolUntouched == UNCHANGED <<commandVars, cacheFile, cacheModuleVars, lookup, parallel>>

Futures == 1..Len(pool.package_names)
Running == {i \in Futures : pool.status[i] = "running"}
Queued == {i \in Futures : pool.status[i] = "queued"}
\* as_completed has yielded the future and the loop body has run
Yielded(p, i) == p.package_names[i] \in DOMAIN p.latest_versions

\* line 138: executor.submit(get_latest_version, name), name after name
PoolSubmit ==
  /\ pool.pc = "submitting"
  /\ LET i == pool.submitted + 1
     IN pool' = [pool EXCEPT !.submitted = i,
                             !.status[i] = "queued",
                             !.pc = IF i = Len(pool.package_names)
                                    THEN "collecting" ELSE "submitting"]
  /\ PoolUntouched

\* a thread of the executor takes the oldest queued lookup
WorkerStart ==
  /\ Queued # {}
  /\ Cardinality(Running) < pool.max_workers
  /\ pool' = [pool EXCEPT !.status[SetMin(Queued)] = "running"]
  /\ PoolUntouched

\* a lookup returns a version or None, or raises
WorkerFinish ==
  /\ \E i \in Running, o \in FutureOutcomes :
       pool' = [pool EXCEPT !.status[i] = "done", !.outcome[i] = o]
  /\ PoolUntouched

\* lines 142-148: as_completed yields a finished future
PoolCollect ==
  /\ pool.pc = "collecting"
  /\ \E i \in Futures :
       /\ pool.status[i] = "done"
       /\ ~Yielded(pool, i)
       /\ pool' = [pool EXCEPT !.latest_versions =
                     [n \in (DOMAIN pool.latest_versions) \cup {pool.package_names[i]} |->
                        IF n = pool.package_names[i]
                        THEN (IF pool.outcome[i] = WorkerException THEN None ELSE pool.outcome[i])
                        ELSE pool.latest_versions[n]]]
  /\ PoolUntouched

\* the loop ends with the first future
LoopEnded_early(p) == \E i \in 1..Len(p.package_names) : Yielded(p, i)
\* the for loop over as_completed ends when every future has been yielded
LoopEnded(p) == \A i \in 1..Len(p.package_names) : Yielded(p, i)

\* line 150: return latest_versions
PoolReturn ==
  /\ pool.pc = "collecting"
  /\ LoopEnded(pool)
  /\ pool' = [pool EXCEPT !.pc = "returned"]
  /\ PoolUntouched

PoolNext == PoolSubmit \/ WorkerStart \/ WorkerFinish \/ PoolCollect \/ PoolReturn
PoolSpec == PoolInit /\ [][PoolNext]_vars

\* C21: when get_latest_versions_parallel returns, every lookup it submitted
\* has finished or failed, and the map has an entry for every submitted name.
C21_ReturnsAfterAllLookups ==
  pool.pc = "returned" =>
    \A i \in Futures :
      /\ pool.status[i] = "done"
      /\ pool.package_names[i] \in DOMAIN pool.latest_versions
      /\ pool.latest_versions[pool.package_names[i]] =
           IF pool.outcome[i] = WorkerException THEN None ELSE pool.outcome[i]
C21_Witness ==
  /\ pool.pc = "returned"
  /\ Len(pool.package_names) = MaxPoolNames
  /\ pool.max_workers < MaxPoolNames
  /\ \E i, j \in Futures : pool.outcome[i] = WorkerException /\ pool.outcome[j] = V2


(***************************************************************************)
(* __init__.py: rollback (lines 226-320), on the snapshot file that        *)
(* save_snapshot wrote.                                                    *)
(***************************************************************************)
\* a filter that keeps the whole snapshot
FilteredSnapshot_whole(snapshot_dict, packages_arg) == snapshot_dict
\* lines 257-259: the entries whose name was requested
FilteredSnapshot(snapshot_dict, packages_arg) ==
  SelectSeq(snapshot_dict, LAMBDA en : en.k \in Range(packages_arg))

\* a rollback that goes on with no entry to restore
NoneFound_never(packages_arg, filtered_snapshot) == FALSE
\* lines 256 and 260: names were given and none is in the snapshot
NoneFound(packages_arg, filtered_snapshot) ==
  packages_arg # << >> /\ filtered_snapshot = << >>

\* a rollback that asks for the latest version of every entry
PackagesToInstall_latest(snapshot_dict) ==
  [i \in 1..Len(snapshot_dict) |-> snapshot_dict[i].k \o AT \o LATEST]
\* line 277: name@version for every entry
PackagesToInstall(snapshot_dict) ==
  [i \in 1..Len(snapshot_dict) |-> snapshot_dict[i].k \o AT \o snapshot_dict[i].v]

RollbackOutcome(packages_to_install, installs, code) ==
  [packages_to_install |-> packages_to_install, installs |-> installs, code |-> code]

\* the command with the arguments packages and --force, the answer confirm to
\* the prompt and the exit code rc of volta install, should they be asked for
rollback(file, packages_arg, force, confirm, rc) ==
  IF ~file.exists THEN RollbackOutcome(<< >>, 0, 1)
  ELSE LET filtered_snapshot == FilteredSnapshot(file.data, packages_arg)
           snapshot_dict == IF packages_arg # << >> THEN filtered_snapshot ELSE file.data
           packages_to_install == PackagesToInstall(snapshot_dict)
       IN IF NoneFound(packages_arg, filtered_snapshot) THEN RollbackOutcome(<< >>, 0, 1)
          ELSE IF ~force /\ ~confirm THEN RollbackOutcome(packages_to_install, 0, 0)
          ELSE RollbackOutcome(packages_to_install, 1, rc)

\* the names a user may ask to roll back: installed packages, and one that
\* never was installed
RollbackRequests ==
  {Sorted(S) : S \in SUBSET {PkgName(i) : i \in 1..(NumPkgs + 1)}}

Rollback ==
  /\ pc = "idle"
  /\ \E packages_arg \in RollbackRequests, force \in BOOLEAN, confirm \in BOOLEAN,
        rc \in InstallReturnCodes :
       LET o == rollback(snapshotFile, packages_arg, force, confirm, rc)
       IN /\ rollbackOp' = [called |-> TRUE, packages |-> packages_arg, force |-> force,
                            confirm |-> confirm,
                            packages_to_install |-> o.packages_to_install,
                            installs |-> o.installs]
          /\ IF o.installs = 1
             THEN /\ install_rc' = rc
                  /\ volta' \in VoltaInstall(volta, o.packages_to_install, rc)
             ELSE UNCHANGED <<install_rc, volta>>
          /\ Exit(o.code)
  /\ UNCHANGED <<runVars, packages, checkVars, diskVars, prompts, events, fileVars>>
  /\ UNCHANGED <<snapshotAtStart, voltaAtStart, previous, runs, parsed>>
  /\ UNCHANGED <<cacheModuleVars, npmVars>>

(***************************************************************************)
(* A session: commands one after the other on the same machine.  The       *)
(* snapshot file, the cache file, the history log and the installed        *)
(* packages stay; the configuration file may be edited between commands.   *)
(***************************************************************************)
MaxRuns == 2
\* the options of the commands of a session
RunFlagSets ==
  {f \in FlagSets : ~f.force /\ ~f.no_cache /\ ~f.all_packages /\ ~f.include_project}
\* the cache files of a session: empty, or an entry for every package that is
\* still valid
RunCacheFiles ==
  {EmptyCache}
    \cup {[n \in PkgNames |-> [v |-> f[n], ts |-> Now - DEFAULT_CACHE_TTL_HOURS * SECONDS_PER_HOUR]] :
            f \in [PkgNames -> LatestVersions]}

RunsInit == Init /\ cacheFile \in RunCacheFiles

\* the update of the command: not interactive, volta install returned 0
UpdateSucceeded ==
  /\ CheckAndUpdateRun /\ ~flags.interactive
  /\ pc = "done" /\ InstallInvoked /\ install_rc = 0

NewCommand ==
  /\ pc \in {"done", "raised"}
  /\ runs < MaxRuns
  /\ runs' = runs + 1
  /\ previous' = [kind |-> IF rollbackOp.called THEN "rollback" ELSE "main",
                   updated |-> UpdateSucceeded,
                   volta |-> voltaAtStart,
                   checkable |-> {pr[1] : pr \in Checkable}]
  /\ snapshotAtStart' = snapshotFile
  /\ voltaAtStart' = volta
  /\ config' \in Configs
  /\ pc' = "idle"
  /\ flags' = NoFlags
  /\ namevers' = << >> /\ packages' = << >>
  /\ names' = << >> /\ installed' = << >> /\ latest' = << >> /\ states' = << >>
  /\ to_install' = << >> /\ snapshot' = << >>
  /\ disk_free' = NOT_ASKED /\ available_mb' = NOT_ASKED
  /\ prompts' = << >> /\ events' = << >>
  /\ install_rc' = NO_RESULT /\ result' = NO_RESULT
  /\ rollbackOp' = NoRollback
  /\ parallel' = NoParallel
  /\ UNCHANGED <<fileVars, volta, parsed, cacheModuleVars, lookup, pool>>

RunsNext ==
  \/ MainWith(RunFlagSets) \/ FastInstall \/ CheckVersions \/ PreparePlan
  \/ SaveSnapshot \/ Install \/ Rollback \/ NewCommand
RunsSpec == RunsInit /\ [][RunsNext]_vars

(***************************************************************************)
(* What the claims about rollback and about sessions speak of.             *)
(***************************************************************************)
RolledBack == rollbackOp.called /\ pc = "done"
\* the snapshot entries a rollback is about: all, or those with a requested name
SelectedEntries ==
  {en \in Range(snapshotFile.data) :
     rollbackOp.packages = << >> \/ en.k \in Range(rollbackOp.packages)}
\* the run has passed the snapshot write on its way to the install
ReachedInstall == CheckAndUpdateRun /\ (pc = "install" \/ InstallInvoked)

\* C23: a rollback without a snapshot file, or with names of which none is in
\* the snapshot, exits with 1 and installs nothing.
C23_NothingToRollBack ==
  (rollbackOp.called
     /\ (\/ ~snapshotFile.exists
         \/ /\ rollbackOp.packages # << >>
            /\ Range(rollbackOp.packages) \cap DictKeys(snapshotFile.data) = {}))
    => /\ pc = "done" /\ result = 1
       /\ rollbackOp.installs = 0
       /\ volta = voltaAtStart
C23_Witness ==
  /\ RolledBack /\ rollbackOp.force
  /\ snapshotFile.exists /\ snapshotFile.data # << >>
  /\ rollbackOp.packages # << >>
  /\ Range(rollbackOp.packages) \cap DictKeys(snapshotFile.data) = {}
  /\ result = 1

\* C24: a confirmed rollback invokes install once, with name@version for
\* exactly the selected snapshot entries (all without names, else those with a
\* requested name; requested names that are not in the snapshot are skipped);
\* it exits with 0 when the install succeeds, leaving every selected package
\* at its snapshot version, and with the install's exit code otherwise.
C24_RollbackInstallsSelection ==
  (rollbackOp.called /\ snapshotFile.exists
     /\ (rollbackOp.force \/ rollbackOp.confirm)
     /\ (rollbackOp.packages = << >> \/ SelectedEntries # {}))
    => /\ pc = "done"
       /\ rollbackOp.installs = 1
       /\ Range(rollbackOp.packages_to_install) = {en.k \o AT \o en.v : en \in SelectedEntries}
       /\ Len(rollbackOp.packages_to_install) = Cardinality(SelectedEntries)
       /\ result = install_rc
       /\ install_rc = 0 =>
            \A en \in SelectedEntries : en.k \in DOMAIN volta /\ volta[en.k] = en.v
C24_Witness ==
  /\ RolledBack /\ rollbackOp.confirm /\ ~rollbackOp.force
  /\ Len(snapshotFile.data) = NumPkgs
  /\ PkgName(NumPkgs + 1) \in Range(rollbackOp.packages)
  /\ Len(rollbackOp.packages_to_install) = 1
  /\ result = 0
  /\ \E en \in SelectedEntries : voltaAtStart[en.k] # en.v /\ volta[en.k] = en.v

\* C27: in a session the snapshot file is written by the check_and_update
\* runs that reach the install step and by nothing else: such a run leaves
\* exactly the name -> installed version map of its checkable packages, with
\* no entry of the file it found; until then, and in every other command, the
\* file is as the command found it.
C27_SnapshotIsLastUpdate ==
  IF ReachedInstall
  THEN /\ snapshotFile.exists
       /\ Range(snapshotFile.data) = {[k |-> pr[1], v |-> pr[2]] : pr \in Checkable}
       /\ Len(snapshotFile.data) = Cardinality(Checkable)
  ELSE snapshotFile = snapshotAtStart
C27_Witness ==
  /\ runs > 1 /\ ReachedInstall
  /\ snapshotAtStart.exists
  /\ DictKeys(snapshotAtStart.data) \ DictKeys(snapshotFile.data) # {}

\* C29: after an update that was not interactive and whose install succeeded,
\* a rollback without names whose install succeeds leaves every package that
\* was checkable in the update at the version it had before the update.
C29_RollbackRestoresUpdate ==
  (RolledBack /\ previous.updated /\ rollbackOp.packages = << >>
     /\ rollbackOp.installs = 1 /\ install_rc = 0)
    => \A n \in previous.checkable :
         n \in DOMAIN volta /\ volta[n] = previous.volta[n]
C29_Witness ==
  /\ RolledBack /\ previous.updated /\ rollbackOp.packages = << >>
  /\ rollbackOp.installs = 1 /\ install_rc = 0
  /\ \E n, m \in previous.checkable :
       /\ voltaAtStart[n] # previous.volta[n] /\ volta[n] = previous.volta[n]
       /\ voltaAtStart[m] = previous.volta[m] /\ volta[m] = previous.volta[m]

====
